---- MODULE Spec2Model ----
(***************************************************************************)
(* Model of the financial dashboard script (src/untitled0.py): the         *)
(* analytics functions (returns, volatility, drawdown, Sharpe ratio,       *)
(* z-score), the date-aligned merge and rolling correlation, and the       *)
(* top-to-bottom run of the page.                                          *)
(*                                                                         *)
(* Numbers: a pandas/numpy float is modelled as an exact rational, NaN or  *)
(* a signed infinity; rounding of IEEE doubles is not modelled.  A square  *)
(* root is kept symbolically: Root(q) is the non-negative root of the      *)
(* rational q, and Quot(e, r) is the rational e divided by the root r.     *)
(***************************************************************************)
EXTENDS Integers, Sequences, FiniteSets, TLC

VARIABLES
    prices,     \* analytics: the Close column handed to an analytics function
    op,         \* analytics: the function called last, with its arguments
    result,     \* analytics: what that call returned
    seen,       \* analytics: an earlier call and its result, kept by the caller
    df1,        \* page: the table loaded for the first asset
    df2,        \* page: the table loaded for the second asset
    show_normalized,    \* page: the "show normalized prices" checkbox
    merged,     \* page: the merged table of the comparison chart
    window,     \* page: the window of the rolling correlation
    pc,         \* page: the section of the script that runs next
    merged_corr,        \* page: the merged table of the correlation section
    overall_corr,       \* page: the overall correlation shown
    show_drawdown,      \* page: the "show drawdowns" checkbox
    show_volume,        \* page: the "show volumes" checkbox
    language,   \* session: st.session_state.language, "unset" in a new session
    choice,     \* widgets: the language the user picked, "unset" before any pick
    clicked,    \* widgets: the refresh button was clicked for the coming run
    asset1_ticker,      \* widgets: the ticker of the first asset
    asset2_ticker,      \* widgets: the ticker of the second asset
    cache,      \* st.cache_data: per cached function, the entries by key
    now,        \* the clock, in seconds
    fetched,    \* run: the keys load_asset_data fetched over the network
    history,    \* per key, the last network fetch and what happened since
    metrics,    \* run: the key metrics and the drawdown statistics shown
    news,       \* run: the news lists shown
    shown,      \* run: the tables shown as raw data
    csv,        \* run: the CSV exports offered for download
    lang_reruns \* the reruns the language selector asked for since the last pick

(***************************************************************************)
(* Bounds of the model.                                                    *)
(***************************************************************************)
MaxLen == 4
MaxPrice == 3
MaxDate == 3
MaxClose == 2
MaxWindow == 3
MaxScale == 3
MaxTicks == 4
TickSeconds == 1500

(***************************************************************************)
(* Float values.                                                           *)
(***************************************************************************)
Abs(x) == IF x < 0 THEN -x ELSE x

Sign(x) == IF x < 0 THEN -1 ELSE IF x = 0 THEN 0 ELSE 1

RECURSIVE GCD(_, _)
GCD(a, b) == IF b = 0 THEN a ELSE GCD(b, a % b)

NaN == [k |-> "nan"]

Inf(s) == [k |-> "inf", s |-> s]

IndexError == [k |-> "raise"]

\* the rational n/d in lowest terms, d > 0
Num(n, d) ==
    LET g == GCD(Abs(n), Abs(d))
    IN  IF d < 0 THEN [k |-> "num", n |-> (-n) \div g, d |-> (-d) \div g]
        ELSE [k |-> "num", n |-> n \div g, d |-> d \div g]

Flt(n) == [k |-> "num", n |-> n, d |-> 1]

IsNaN(x) == x.k = "nan"

FSign(x) == IF x.k = "inf" THEN x.s ELSE Sign(x.n)

FNeg(x) ==
    CASE x.k = "num" -> [k |-> "num", n |-> -x.n, d |-> x.d]
      [] x.k = "inf" -> Inf(-x.s)
      [] OTHER -> x

FAdd(x, y) ==
    IF x.k = "num" /\ y.k = "num"
    THEN Num(x.n * y.d + y.n * x.d, x.d * y.d)
    ELSE CASE x.k = "raise" \/ y.k = "raise" -> IndexError
           [] x.k = "nan" \/ y.k = "nan" -> NaN
           [] x.k = "inf" /\ y.k = "inf" -> IF x.s = y.s THEN x ELSE NaN
           [] x.k = "inf" -> x
           [] OTHER -> y

FSub(x, y) == FAdd(x, FNeg(y))

FMul(x, y) ==
    IF x.k = "num" /\ y.k = "num"
    THEN Num(x.n * y.n, x.d * y.d)
    ELSE CASE x.k = "raise" \/ y.k = "raise" -> IndexError
           [] x.k = "nan" \/ y.k = "nan" -> NaN
           [] OTHER ->
                IF FSign(x) * FSign(y) = 0 THEN NaN ELSE Inf(FSign(x) * FSign(y))

FDiv(x, y) ==
    IF x.k = "num" /\ y.k = "num"
    THEN IF y.n # 0 THEN Num(x.n * y.d, x.d * y.n)
         ELSE IF x.n = 0 THEN NaN ELSE Inf(Sign(x.n))
    ELSE CASE x.k = "raise" \/ y.k = "raise" -> IndexError
           [] x.k = "nan" \/ y.k = "nan" -> NaN
           [] x.k = "inf" /\ y.k = "inf" -> NaN
           [] x.k = "inf" -> Inf(x.s * (IF FSign(y) < 0 THEN -1 ELSE 1))
           [] OTHER -> Flt(0)

\* x <= y on floats: every comparison with NaN is false
FLeq(x, y) ==
    IF x.k = "num" /\ y.k = "num" THEN x.n * y.d <= y.n * x.d
    ELSE CASE x.k = "nan" \/ y.k = "nan" -> FALSE
           [] x.k = "inf" -> x.s = -1 \/ (y.k = "inf" /\ y.s = 1)
           [] OTHER -> y.s = 1

\* x == 0 on floats
FIsZero(x) == x.k = "num" /\ x.n = 0

\* the non-negative square root of a float (np.sqrt, and the root in std)
Root(x) ==
    CASE x.k = "nan" -> NaN
      [] x.k = "inf" -> IF x.s = 1 THEN x ELSE NaN
      [] x.n < 0 -> NaN
      [] OTHER -> [k |-> "root", n |-> x.n, d |-> x.d]

\* the radicand of a root
Radicand(r) == Num(r.n, r.d)

\* a non-negative float as a root, so that roots multiply among themselves
AsRoot(x) == IF x.k = "num" THEN Root(FMul(x, x)) ELSE x

\* product of two non-negative values of which at least one is a root
RMul(x, y) ==
    LET a == AsRoot(x)
        b == AsRoot(y)
    IN  IF a.k = "root" /\ b.k = "root"
        THEN Root(FMul(Radicand(a), Radicand(b)))
        ELSE IF a.k = "nan" \/ b.k = "nan" THEN NaN
        ELSE IF (a.k = "root" /\ a.n = 0) \/ (b.k = "root" /\ b.n = 0) THEN NaN
        ELSE Inf(1)

\* r == 0 for a root or a float
RIsZero(r) == (r.k = "root" \/ r.k = "num") /\ r.n = 0

\* the float e divided by the root r
Quot(e, r) ==
    CASE e.k = "nan" \/ r.k = "nan" -> NaN
      [] r.k = "inf" -> IF e.k = "inf" THEN NaN ELSE Flt(0)
      [] r.n = 0 -> IF FIsZero(e) THEN NaN ELSE Inf(FSign(e))
      [] e.k = "inf" -> e
      [] OTHER -> [k |-> "quot", num |-> e, den |-> r]

(***************************************************************************)
(* pandas Series operations, on sequences of floats.                       *)
(***************************************************************************)
RECURSIVE SeqSum(_)
SeqSum(s) == IF s = <<>> THEN Flt(0) ELSE FAdd(Head(s), SeqSum(Tail(s)))

\* Series.dropna()
RECURSIVE dropna(_)
dropna(s) ==
    IF s = <<>> THEN <<>>
    ELSE IF IsNaN(Head(s)) THEN dropna(Tail(s))
    ELSE <<Head(s)>> \o dropna(Tail(s))

\* Series.pct_change(): no value at position 1, then s[i]/s[i-1] - 1
pct_change(s) ==
    [i \in 1..Len(s) |->
        IF i = 1 THEN NaN ELSE FSub(FDiv(s[i], s[i - 1]), Flt(1))]

\* Series.mean(): NaN skipped, NaN for no observation
mean(s) ==
    LET v == dropna(s)
    IN  IF v = <<>> THEN NaN ELSE FDiv(SeqSum(v), Flt(Len(v)))

\* Series.var() with ddof = 1: NaN skipped, NaN for fewer than 2 observations
var(s) ==
    LET v == dropna(s)
        m == mean(v)
        sq == [i \in 1..Len(v) |-> FMul(FSub(v[i], m), FSub(v[i], m))]
    IN  IF Len(v) < 2 THEN NaN ELSE FDiv(SeqSum(sq), Flt(Len(v) - 1))

\* Series.std() with ddof = 1
std(s) == Root(var(s))

\* Series.cummax(): left-to-right running maximum
RECURSIVE cummax(_)
cummax(s) ==
    IF s = <<>> THEN <<>>
    ELSE LET front == cummax(SubSeq(s, 1, Len(s) - 1))
             x == s[Len(s)]
         IN  IF front = <<>> THEN <<x>>
             ELSE Append(front,
                         IF FLeq(x, front[Len(front)]) THEN front[Len(front)] ELSE x)

\* Series.min(): NaN skipped, NaN for no observation
RECURSIVE SeqMin(_)
SeqMin(s) ==
    LET v == dropna(s)
    IN  IF v = <<>> THEN NaN
        ELSE IF Len(v) = 1 THEN v[1]
        ELSE LET m == SeqMin(Tail(v))
             IN  IF FLeq(v[1], m) THEN v[1] ELSE m

\* Series.iloc[i] for i >= 0 counted from the start, i < 0 from the end
iloc(s, i) ==
    LET j == IF i < 0 THEN Len(s) + i + 1 ELSE i + 1
    IN  IF j \in 1..Len(s) THEN s[j] ELSE IndexError

(***************************************************************************)
(* The analytics functions.                                                *)
(***************************************************************************)
\* def normalize_series(series)
normalize_series(series) ==
    LET m == mean(series)
        s == std(series)
    IN  [i \in 1..Len(series) |-> Quot(FSub(series[i], m), s)]

\* calculate_returns without the guard on short series
calculate_returns_unguarded(p) ==
    FMul(FSub(FDiv(iloc(p, -1), iloc(p, 0)), Flt(1)), Flt(100))

\* calculate_returns measuring from the second price instead of the first
calculate_returns_from_second(p) ==
    IF Len(p) < 2 THEN Flt(0)
    ELSE FMul(FSub(FDiv(iloc(p, -1), iloc(p, 1)), Flt(1)), Flt(100))

\* def calculate_returns(prices)
calculate_returns(p) ==
    IF Len(p) < 2 THEN Flt(0)
    ELSE FMul(FSub(FDiv(iloc(p, -1), iloc(p, 0)), Flt(1)), Flt(100))

\* a volatility taken from the price differences instead of the percentage returns
calculate_volatility_of_differences(p, annualize) ==
    LET returns == dropna([i \in 1..Len(p) |->
                              IF i = 1 THEN NaN ELSE FSub(p[i], p[i - 1])])
        vol == std(returns)
        vol2 == IF annualize THEN RMul(vol, Root(Flt(252))) ELSE vol
    IN  RMul(vol2, Flt(100))

\* calculate_volatility returning 0 when the standard deviation is undefined
calculate_volatility_zero_sentinel(p, annualize) ==
    LET returns == dropna(pct_change(p))
        vol == IF Len(returns) < 2 THEN Root(Flt(0)) ELSE std(returns)
        vol2 == IF annualize THEN RMul(vol, Root(Flt(252))) ELSE vol
    IN  RMul(vol2, Flt(100))

\* def calculate_volatility(prices, annualize=True)
calculate_volatility(p, annualize) ==
    LET returns == dropna(pct_change(p))
        vol == std(returns)
        vol2 == IF annualize THEN RMul(vol, Root(Flt(252))) ELSE vol
    IN  RMul(vol2, Flt(100))

\* calculate_drawdown measuring from the maximum of the whole series
calculate_drawdown_global_peak(p) ==
    LET peak == cummax(p)
    IN  [i \in 1..Len(p) |->
            FMul(FDiv(FSub(p[i], peak[Len(p)]), peak[Len(p)]), Flt(100))]

\* calculate_drawdown with the difference taken the other way round
calculate_drawdown_inverted(p) ==
    LET peak == cummax(p)
    IN  [i \in 1..Len(p) |-> FMul(FDiv(FSub(peak[i], p[i]), peak[i]), Flt(100))]

\* calculate_drawdown measuring from the first price
calculate_drawdown_from_first(p) ==
    [i \in 1..Len(p) |-> FMul(FDiv(FSub(p[i], p[1]), p[1]), Flt(100))]

\* def calculate_drawdown(prices)
calculate_drawdown(p) ==
    LET peak == cummax(p)
    IN  [i \in 1..Len(p) |-> FMul(FDiv(FSub(p[i], peak[i]), peak[i]), Flt(100))]

\* df['Drawdown'] = calculate_drawdown(df['Close']); max_dd = df['Drawdown'].min()
max_dd(p) == SeqMin(calculate_drawdown(p))

\* the default risk_free_rate = 0.04
risk_free_rate == Num(4, 100)

\* calculate_sharpe_ratio without the zero-volatility guard
calculate_sharpe_ratio_unguarded(p, rf) ==
    LET returns == dropna(pct_change(p))
        excess_return == FSub(FMul(mean(returns), Flt(252)), rf)
        volatility == RMul(std(returns), Root(Flt(252)))
    IN  Quot(excess_return, volatility)

\* def calculate_sharpe_ratio(prices, risk_free_rate=0.04)
calculate_sharpe_ratio(p, rf) ==
    LET returns == dropna(pct_change(p))
        excess_return == FSub(FMul(mean(returns), Flt(252)), rf)
        volatility == RMul(std(returns), Root(Flt(252)))
    IN  IF RIsZero(volatility) THEN Flt(0) ELSE Quot(excess_return, volatility)

(***************************************************************************)
(* Tables (DataFrames with a Date and a Close column) and the two merged   *)
(* tables of the page.                                                     *)
(***************************************************************************)
\* a column of prices as floats
Floats(col) == [i \in 1..Len(col) |-> Flt(col[i])]

\* a column of a table
Col(df, name) == [i \in 1..Len(df) |-> df[i][name]]

\* df[['Date', 'Close']].copy(), Close as floats
DateClose(df) == [i \in 1..Len(df) |-> [Date |-> df[i].Date, v |-> Flt(df[i].Close)]]

\* the rows of right whose Date is d, in order
RECURSIVE Matching(_, _)
Matching(right, d) ==
    IF right = <<>> THEN <<>>
    ELSE (IF Head(right).Date = d THEN <<Head(right)>> ELSE <<>>)
            \o Matching(Tail(right), d)

\* a left join: every left row is kept, without a value where right has none
RECURSIVE pd_merge_left(_, _)
pd_merge_left(left, right) ==
    IF left = <<>> THEN <<>>
    ELSE LET l == Head(left)
             m == Matching(right, l.Date)
         IN  (IF m = <<>> THEN <<[Date |-> l.Date, x |-> l.v, y |-> NaN]>>
              ELSE [i \in 1..Len(m) |-> [Date |-> l.Date, x |-> l.v, y |-> m[i].v]])
                \o pd_merge_left(Tail(left), right)

\* pd.merge(left, right, on='Date', how='inner'): for every left row in order,
\* one row per right row of the same Date, carrying both values
RECURSIVE pd_merge_inner(_, _)
pd_merge_inner(left, right) ==
    IF left = <<>> THEN <<>>
    ELSE LET l == Head(left)
             m == Matching(right, l.Date)
         IN  [i \in 1..Len(m) |-> [Date |-> l.Date, x |-> l.v, y |-> m[i].v]]
                \o pd_merge_inner(Tail(left), right)

\* the table plotted for one asset: Date and Close, Close replaced by its z-score
\* when normalized prices are shown
plot_table(df, normalized) ==
    LET z == normalize_series(Floats(Col(df, "Close")))
    IN  [i \in 1..Len(df) |->
            [Date |-> df[i].Date, v |-> IF normalized THEN z[i] ELSE Flt(df[i].Close)]]

\* merged = pd.merge(df1_plot, df2_plot, on='Date', how='inner')
merged_of(d1, d2, normalized) ==
    pd_merge_inner(plot_table(d1, normalized), plot_table(d2, normalized))

\* a correlation whose covariance is divided by n where the variances are divided
\* by n - 1
pearson_biased(x, y) ==
    LET n == Len(x)
        xy == [i \in 1..n |-> FMul(x[i], y[i])]
        numerator == FSub(mean(xy), FMul(mean(x), mean(y)))
        denominator == Root(FMul(var(x), var(y)))
    IN  IF n = 0 THEN NaN ELSE Quot(numerator, denominator)

\* Pearson correlation of the pairs (x[i], y[i]) as pandas computes it:
\* (mean(xy) - mean(x)mean(y)) * n/(n-1) over sqrt(var(x) * var(y))
pearson(x, y) ==
    LET n == Len(x)
        xy == [i \in 1..n |-> FMul(x[i], y[i])]
        numerator == FMul(FSub(mean(xy), FMul(mean(x), mean(y))),
                          FDiv(Flt(n), Flt(n - 1)))
        denominator == Root(FMul(var(x), var(y)))
    IN  IF n = 0 THEN NaN ELSE Quot(numerator, denominator)

\* the positions of the window ending at i where both series have a value
ValidIn(x, y, lo, hi) ==
    {j \in lo..hi : ~IsNaN(x[j]) /\ ~IsNaN(y[j])}

\* the values of s at the positions of set P, in order
RECURSIVE Pick(_, _, _)
Pick(s, P, i) ==
    IF i > Len(s) THEN <<>>
    ELSE (IF i \in P THEN <<s[i]>> ELSE <<>>) \o Pick(s, P, i + 1)

\* a rolling correlation with min_periods = 2: partial windows give a value
rolling_corr_partial(x, y, w) ==
    [i \in 1..Len(x) |->
        LET lo == IF i - w + 1 < 1 THEN 1 ELSE i - w + 1
            P == ValidIn(x, y, lo, i)
        IN  IF Cardinality(P) < 2 THEN NaN
            ELSE pearson(Pick(x, P, 1), Pick(y, P, 1))]

\* x.rolling(window=w).corr(y): min_periods defaults to the window, so a position
\* has a value only when its w trailing rows all carry a pair
rolling_corr(x, y, w) ==
    [i \in 1..Len(x) |->
        LET lo == IF i - w + 1 < 1 THEN 1 ELSE i - w + 1
            P == ValidIn(x, y, lo, i)
        IN  IF Cardinality(P) < w THEN NaN
            ELSE pearson(Pick(x, P, 1), Pick(y, P, 1))]

\* x.corr(y): Pearson correlation over the rows where both have a value
series_corr(x, y) ==
    LET P == ValidIn(x, y, 1, Len(x))
    IN  pearson(Pick(x, P, 1), Pick(y, P, 1))

\* window = 30
script_window == 30

\* merged_corr with each asset's own daily returns computed before the join
merged_corr_of_own_returns(d1, d2, w) ==
    LET r1 == pct_change(Floats(Col(d1, "Close")))
        r2 == pct_change(Floats(Col(d2, "Close")))
        l == [i \in 1..Len(d1) |->
                [Date |-> d1[i].Date, v |-> [c |-> Flt(d1[i].Close), r |-> r1[i]]]]
        r == [i \in 1..Len(d2) |->
                [Date |-> d2[i].Date, v |-> [c |-> Flt(d2[i].Close), r |-> r2[i]]]]
        m == pd_merge_inner(l, r)
        Return1 == [i \in 1..Len(m) |-> m[i].x.r]
        Return2 == [i \in 1..Len(m) |-> m[i].y.r]
        Rolling_Corr == rolling_corr(Return1, Return2, w)
    IN  [i \in 1..Len(m) |->
            [Date |-> m[i].Date, Asset1 |-> m[i].x.c, Asset2 |-> m[i].y.c,
             Return1 |-> Return1[i], Return2 |-> Return2[i],
             Rolling_Corr |-> Rolling_Corr[i]]]

\* merged_corr: the inner join of the two Close columns, then the daily returns
\* and the rolling correlation of the returns
merged_corr_of(d1, d2, w) ==
    LET m == pd_merge_inner(DateClose(d1), DateClose(d2))
        Return1 == pct_change(Col(m, "x"))
        Return2 == pct_change(Col(m, "y"))
        Rolling_Corr == rolling_corr(Return1, Return2, w)
    IN  [i \in 1..Len(m) |->
            [Date |-> m[i].Date, Asset1 |-> m[i].x, Asset2 |-> m[i].y,
             Return1 |-> Return1[i], Return2 |-> Return2[i],
             Rolling_Corr |-> Rolling_Corr[i]]]

(***************************************************************************)
(* The session, the widgets and the cache of a run of the script.          *)
(***************************************************************************)
\* the keys of TRANSLATIONS: English, Francais, Espanol, Zhongwen, Russkiy, Arabiya
TRANSLATIONS == {"English", "Francais", "Espanol", "Zhongwen", "Russkiy", "Arabiya"}

\* the tickers of the two assets the selectors start on: Bitcoin and S&P 500
Tickers == {"BTC-USD", "^GSPC"}

\* years = st.slider(..., value=5)
years == 5

\* the arguments (ticker, years) of load_asset_data
Key(ticker) == <<ticker, years>>

Keys == {Key(ticker) : ticker \in Tickers}

\* @st.cache_data(ttl=3600)
ttl == 3600

Absent == [k |-> "absent"]

NotComputed == [k |-> "none"]

\* no key metric and no drawdown statistic computed
NoMetrics == [key |-> NotComputed, max_dd |-> NotComputed]

\* the stores of st.cache_data, one per decorated function, all empty
EmptyCache ==
    [load_asset_data |-> [key \in Keys |-> Absent],
     get_asset_info |-> [ticker \in Tickers |-> Absent],
     get_news |-> [ticker \in Tickers |-> Absent]]

\* an entry stored at entry.at is served until ttl seconds have passed
IsLive(entry, t) == entry # Absent /\ t - entry.at < ttl

\* a cache that stores nothing: every call runs the function
cache_data_uncached(c, f, key, t, computed) ==
    [value |-> computed, cache |-> c, miss |-> TRUE]

\* a cache that does not store an empty result
cache_data_skips_empty(c, f, key, t, computed) ==
    IF IsLive(c[f][key], t)
    THEN [value |-> c[f][key].value, cache |-> c, miss |-> FALSE]
    ELSE [value |-> computed,
          cache |-> IF computed = <<>> THEN c
                    ELSE [c EXCEPT ![f][key] = [value |-> computed, at |-> t]],
          miss |-> TRUE]

\* a call of the st.cache_data function f with arguments key at time t, computed
\* being what the function body returns if it runs: a live entry is returned
\* without running the body, otherwise the body runs and its result is stored
cache_data(c, f, key, t, computed) ==
    IF IsLive(c[f][key], t)
    THEN [value |-> c[f][key].value, cache |-> c, miss |-> FALSE]
    ELSE [value |-> computed,
          cache |-> [c EXCEPT ![f][key] = [value |-> computed, at |-> t]],
          miss |-> TRUE]

\* a refresh that clears the asset data only
cache_data_clear_asset_data(c) ==
    [c EXCEPT !.load_asset_data = EmptyCache.load_asset_data]

\* st.cache_data.clear(): every entry of every cached function is dropped
cache_data_clear(c) == EmptyCache

\* what the network answers to a request: rows, no rows, or an exception
Responses == {"rows", "none", "raises"}

\* the rows Yahoo Finance holds for a ticker, as a table with Date as a column:
\* Bitcoin trades every day, the index has no row on the second day
Quotes(ticker) ==
    IF ticker = "BTC-USD"
    THEN <<[Date |-> 1, Close |-> 1], [Date |-> 2, Close |-> 2],
           [Date |-> 3, Close |-> 1]>>
    ELSE <<[Date |-> 1, Close |-> 2], [Date |-> 3, Close |-> 1]>>

\* the body of load_asset_data: the table, or an empty table when the request
\* returns no rows or raises
load_asset_data_body(ticker, response) ==
    CASE response = "rows" -> Quotes(ticker)
      [] response = "none" -> <<>>
      [] OTHER -> <<>>

\* the body of get_news: the first entries of the feed, or an empty list
get_news_body(ticker, response) ==
    CASE response = "rows" -> <<[title |-> ticker]>>
      [] response = "none" -> <<>>
      [] OTHER -> <<>>

\* no network fetch of any key so far
NoHistory == [key \in Keys |-> [last |-> -1, response |-> "none", cleared |-> FALSE]]

\* the asset selectors at their initial values: Bitcoin against the S&P 500
DefaultAssets ==
    /\ asset1_ticker = "BTC-USD"
    /\ asset2_ticker = "^GSPC"

\* the other widgets at their initial values, nothing cached, nothing run
NoRun ==
    /\ show_drawdown = TRUE
    /\ show_volume = FALSE
    /\ language = "unset"
    /\ choice = "unset"
    /\ clicked = FALSE
    /\ cache = EmptyCache
    /\ now = 0
    /\ fetched = {}
    /\ history = NoHistory
    /\ metrics = NoMetrics
    /\ news = NotComputed
    /\ shown = NotComputed
    /\ csv = NotComputed
    /\ lang_reruns = 0

(***************************************************************************)
(* The analytics functions called on any price series: the series is       *)
(* drawn once, then the functions are called on it in any order.           *)
(***************************************************************************)
PriceSeries == UNION {[1..n -> 1..MaxPrice] : n \in 0..MaxLen}

NoCall == [f |-> "none"]

\* the state of a run of the script besides its tables
run_vars == <<show_drawdown, show_volume, language, choice, clicked, asset1_ticker,
              asset2_ticker, cache, now, fetched, history, metrics, news, shown,
              csv, lang_reruns>>

vars == <<prices, op, result, seen, df1, df2, show_normalized, merged, window, pc,
          merged_corr, overall_corr, run_vars>>

page_vars == <<df1, df2, show_normalized, merged, window, pc, merged_corr,
               overall_corr, run_vars>>

\* no table loaded, no section run
NoPage ==
    /\ df1 = <<>>
    /\ df2 = <<>>
    /\ show_normalized = FALSE
    /\ merged = <<>>
    /\ window = script_window
    /\ pc = "none"
    /\ merged_corr = <<>>
    /\ overall_corr = NaN
    /\ NoRun
    /\ DefaultAssets

InitAnalytics ==
    /\ prices \in PriceSeries
    /\ op = NoCall
    /\ result = NaN
    /\ seen = NoCall
    /\ NoPage

CallNormalize ==
    /\ op' = [f |-> "normalize_series"]
    /\ result' = normalize_series(Floats(prices))
    /\ UNCHANGED <<prices, seen, page_vars>>

CallReturns ==
    /\ op' = [f |-> "calculate_returns"]
    /\ result' = calculate_returns(Floats(prices))
    /\ UNCHANGED <<prices, seen, page_vars>>

CallVolatility ==
    \E annualize \in BOOLEAN :
        /\ op' = [f |-> "calculate_volatility", annualize |-> annualize]
        /\ result' = calculate_volatility(Floats(prices), annualize)
        /\ UNCHANGED <<prices, seen, page_vars>>

\* the running maximum of a series of whole prices
IntCummax(p) ==
    [i \in 1..Len(p) |->
        CHOOSE m \in {p[j] : j \in 1..i} : \A j \in 1..i : p[j] <= m]

\* a drawdown that computes the peak in place, in the caller's series
CallDrawdownInPlace ==
    /\ op' = [f |-> "calculate_drawdown"]
    /\ result' = calculate_drawdown(Floats(prices))
    /\ prices' = IntCummax(prices)
    /\ UNCHANGED <<seen, page_vars>>

CallDrawdown ==
    /\ op' = [f |-> "calculate_drawdown"]
    /\ result' = calculate_drawdown(Floats(prices))
    /\ UNCHANGED <<prices, seen, page_vars>>

CallSharpe ==
    /\ op' = [f |-> "calculate_sharpe_ratio"]
    /\ result' = calculate_sharpe_ratio(Floats(prices), risk_free_rate)
    /\ UNCHANGED <<prices, seen, page_vars>>

\* df['Drawdown'] = calculate_drawdown(df['Close']); max_dd = df['Drawdown'].min()
\* The page computes it only past the check that stops the run on an empty table.
DrawdownStats ==
    /\ Len(prices) >= 1
    /\ op' = [f |-> "max_dd"]
    /\ result' = max_dd(Floats(prices))
    /\ UNCHANGED <<prices, seen, page_vars>>

NextAnalytics ==
    \/ CallNormalize
    \/ CallReturns
    \/ CallVolatility
    \/ CallDrawdown
    \/ CallSharpe
    \/ DrawdownStats

SpecAnalytics == InitAnalytics /\ [][NextAnalytics]_vars

(***************************************************************************)
(* The analytics functions called repeatedly: the caller keeps the value a *)
(* call returned (as the page does in return1, vol1, sharpe1, ...) while   *)
(* further calls are made on the same series.                              *)
(***************************************************************************)
\* the price series that move between the lowest and the highest price
InitPurity ==
    /\ prices \in UNION {[1..n -> {1, MaxPrice}] : n \in 0..MaxLen}
    /\ op = NoCall
    /\ result = NaN
    /\ seen = NoCall
    /\ NoPage

\* return1 = calculate_returns(...), vol1 = calculate_volatility(...), ...: the
\* caller holds on to what the last call returned
Remember ==
    /\ op # NoCall
    /\ seen' = [f |-> op.f, op |-> op, prices |-> prices, result |-> result]
    /\ UNCHANGED <<prices, op, result, page_vars>>

NextPurity ==
    \/ NextAnalytics
    \/ Remember

SpecPurity == InitPurity /\ [][NextPurity]_vars

(***************************************************************************)
(* The sections of the page from the comparison chart (merged) to the      *)
(* correlation analysis (merged_corr), on a pair of loaded tables.         *)
(***************************************************************************)
\* the table holding close f[d] at date d for every d with f[d] > 0
RECURSIVE TableOf(_, _)
TableOf(f, d) ==
    IF d > Len(f) THEN <<>>
    ELSE (IF f[d] > 0 THEN <<[Date |-> d, Close |-> f[d]]>> ELSE <<>>)
            \o TableOf(f, d + 1)

\* the non-empty tables over the first n dates with closes in C, a date absent
\* or present once, in ascending order
TablesOver(n, C) ==
    {TableOf(f, 1) : f \in [1..n -> {0} \cup C]} \ {<<>>}

\* the tables with a close in C at every one of the first n dates
FullTablesOver(n, C) ==
    {TableOf(f, 1) : f \in [1..n -> C]}

InitPage ==
    /\ prices = <<>>
    /\ op = NoCall
    /\ result = NaN
    /\ seen = NoCall
    /\ merged = <<>>
    /\ merged_corr = <<>>
    /\ overall_corr = NaN
    /\ NoRun
    /\ DefaultAssets

\* the page as the script runs it, past the loading of two non-empty tables; the
\* first table takes any close at each of its dates, the second the lowest or the
\* highest close
InitMerge ==
    /\ InitPage
    /\ df1 \in TablesOver(MaxDate, 1..MaxClose)
    /\ df2 \in TablesOver(MaxDate, {1, MaxClose})
    /\ show_normalized \in BOOLEAN
    /\ window = script_window
    /\ pc = "chart"

\* the correlation section on two tables of the same dates, with the script's
\* window and with windows that tables of a few rows fill; the first table takes
\* any close at each date, the second the lowest or the highest close
InitRolling ==
    /\ InitPage
    /\ \E n \in 1..(MaxWindow + 1) :
          /\ df1 \in FullTablesOver(n, 1..MaxClose)
          /\ df2 \in FullTablesOver(n, {1, MaxClose})
    /\ show_normalized = TRUE
    /\ window \in (2..MaxWindow) \cup {script_window}
    /\ pc = "correlation"

\* "MAIN CHART - COMPARISON": merged is built from the two tables as plotted
MainChart ==
    /\ pc = "chart"
    /\ merged' = merged_of(df1, df2, show_normalized)
    /\ pc' = "drawdown"
    /\ UNCHANGED <<prices, op, result, seen, df1, df2, show_normalized, window,
                   merged_corr, overall_corr, run_vars>>

\* df['Drawdown'] = calculate_drawdown(df['Close']): the table with the Drawdown
\* column added
with_drawdown(df) ==
    LET dd == calculate_drawdown(Floats(Col(df, "Close")))
    IN  [i \in 1..Len(df) |->
            [Date |-> df[i].Date, Close |-> df[i].Close, Drawdown |-> dd[i]]]

\* "DRAWDOWN CHART": when the checkbox is set, both tables get a Drawdown column
\* and its minimum is shown for each
DrawdownSection ==
    /\ pc = "drawdown"
    /\ df1' = IF show_drawdown THEN with_drawdown(df1) ELSE df1
    /\ df2' = IF show_drawdown THEN with_drawdown(df2) ELSE df2
    /\ metrics' =
          IF show_drawdown
          THEN [metrics EXCEPT !.max_dd =
                    [max_dd1 |-> SeqMin(Col(df1', "Drawdown")),
                     max_dd2 |-> SeqMin(Col(df2', "Drawdown"))]]
          ELSE metrics
    /\ pc' = "volume"
    /\ UNCHANGED <<prices, op, result, seen, show_normalized, merged, window,
                   merged_corr, overall_corr>>
    /\ UNCHANGED <<show_drawdown, show_volume, language, choice, clicked,
                   asset1_ticker, asset2_ticker, cache, now, fetched, history,
                   news, shown, csv, lang_reruns>>

\* "VOLUME CHART": when the checkbox is set the volumes are plotted; no table
\* changes
VolumeSection ==
    /\ pc = "volume"
    /\ pc' = "correlation"
    /\ UNCHANGED <<prices, op, result, seen, df1, df2, show_normalized, merged,
                   window, merged_corr, overall_corr, run_vars>>

\* "CORRELATION": merged_corr with its returns and rolling correlation, and the
\* overall correlation
Correlation ==
    /\ pc = "correlation"
    /\ merged_corr' = merged_corr_of(df1, df2, window)
    /\ overall_corr' = series_corr(Col(merged_corr', "Return1"),
                                   Col(merged_corr', "Return2"))
    /\ pc' = "news"
    /\ UNCHANGED <<prices, op, result, seen, df1, df2, show_normalized, merged,
                   window, run_vars>>

NextMerge ==
    \/ MainChart
    \/ DrawdownSection
    \/ VolumeSection
    \/ Correlation

SpecMerge == InitMerge /\ [][NextMerge]_vars

SpecRolling == InitRolling /\ [][Correlation]_vars

(***************************************************************************)
(* The run of the script from top to bottom, and its reruns.  A run ends   *)
(* at the bottom ("done"), at st.stop() ("stopped") or at st.rerun(),      *)
(* which starts the next run at once; the user acts on a page that has     *)
(* finished running, and every action of the user starts a new run.        *)
(***************************************************************************)
analytics_vars == <<prices, op, result, seen>>

\* the values a run computes, which every run starts without
run_values == <<df1, df2, merged, merged_corr, overall_corr, fetched, metrics,
                news, shown, csv>>

\* the values of the widgets
widget_vars == <<show_normalized, show_drawdown, show_volume, choice, clicked,
                 asset1_ticker, asset2_ticker, window>>

\* a new session opens the page: the first run starts
OpenPage ==
    /\ prices = <<>>
    /\ op = NoCall
    /\ result = NaN
    /\ seen = NoCall
    /\ df1 = <<>>
    /\ df2 = <<>>
    /\ show_normalized = TRUE
    /\ merged = <<>>
    /\ window = script_window
    /\ pc = "session"
    /\ merged_corr = <<>>
    /\ overall_corr = NaN
    /\ NoRun

InitRun ==
    /\ OpenPage
    /\ DefaultAssets

\* the page opened to compare Bitcoin with the index, or with itself
InitCache ==
    /\ OpenPage
    /\ asset1_ticker = "BTC-USD"
    /\ asset2_ticker \in Tickers

\* the script starts again from its first line with fresh variables
FreshRun ==
    /\ pc' = "session"
    /\ df1' = <<>>
    /\ df2' = <<>>
    /\ merged' = <<>>
    /\ merged_corr' = <<>>
    /\ overall_corr' = NaN
    /\ fetched' = {}
    /\ metrics' = NoMetrics
    /\ news' = NotComputed
    /\ shown' = NotComputed
    /\ csv' = NotComputed

\* if "language" not in st.session_state: st.session_state.language = "English"
SessionInit ==
    /\ pc = "session"
    /\ language' = IF language = "unset" THEN "English" ELSE language
    /\ pc' = "language"
    /\ UNCHANGED <<analytics_vars, run_values, widget_vars, cache, now, history,
                   lang_reruns>>

\* st.selectbox(options=TRANSLATIONS keys, index=index of the stored language):
\* the language the user picked, or the stored one before any pick
selectbox_language == IF choice = "unset" THEN language ELSE choice

\* a language selector that reruns without storing the selection
LanguageSelectorForgets ==
    /\ pc = "language"
    /\ IF selectbox_language # language
       THEN /\ lang_reruns' = lang_reruns + 1
            /\ FreshRun
            /\ UNCHANGED language
       ELSE /\ pc' = "sidebar"
            /\ UNCHANGED <<language, lang_reruns, run_values>>
    /\ UNCHANGED <<analytics_vars, widget_vars, cache, now, history>>

\* the language selector: a selection other than the stored language is stored
\* and st.rerun() starts the script again
LanguageSelector ==
    /\ pc = "language"
    /\ IF selectbox_language # language
       THEN /\ language' = selectbox_language
            /\ lang_reruns' = lang_reruns + 1
            /\ FreshRun
       ELSE /\ pc' = "sidebar"
            /\ UNCHANGED <<language, lang_reruns, run_values>>
    /\ UNCHANGED <<analytics_vars, widget_vars, cache, now, history>>

\* the rest of the sidebar: the asset, period and option widgets are read, and a
\* click on the refresh button clears the cache and starts the script again
Sidebar ==
    /\ pc = "sidebar"
    /\ IF clicked
       THEN /\ cache' = cache_data_clear(cache)
            /\ history' = [key \in Keys |-> [history[key] EXCEPT !.cleared = TRUE]]
            /\ clicked' = FALSE
            /\ FreshRun
       ELSE /\ pc' = "load"
            /\ UNCHANGED <<cache, history, clicked, run_values>>
    /\ UNCHANGED <<analytics_vars, show_normalized, show_drawdown, show_volume,
                   choice, asset1_ticker, asset2_ticker, window, language, now,
                   lang_reruns>>

\* df1 = load_asset_data(asset1_ticker, years); df2 = load_asset_data(
\* asset2_ticker, years): two cached calls, the network answering each fetch
LoadData ==
    /\ pc = "load"
    /\ \E r1, r2 \in Responses :
          LET k1 == Key(asset1_ticker)
              k2 == Key(asset2_ticker)
              c1 == cache_data(cache, "load_asset_data", k1, now,
                               load_asset_data_body(asset1_ticker, r1))
              c2 == cache_data(c1.cache, "load_asset_data", k2, now,
                               load_asset_data_body(asset2_ticker, r2))
          IN  /\ df1' = c1.value
              /\ df2' = c2.value
              /\ cache' = c2.cache
              /\ fetched' = {k \in {k1} : c1.miss} \cup {k \in {k2} : c2.miss}
              /\ history' =
                    [key \in Keys |->
                        IF key = k2 /\ c2.miss
                        THEN [last |-> now, response |-> r2, cleared |-> FALSE]
                        ELSE IF key = k1 /\ c1.miss
                        THEN [last |-> now, response |-> r1, cleared |-> FALSE]
                        ELSE history[key]]
    /\ pc' = "check"
    /\ UNCHANGED <<analytics_vars, widget_vars, merged, merged_corr, overall_corr,
                   metrics, news, shown, csv, language, now, lang_reruns>>

\* a check that stops the run only when both tables are empty
CheckDataBoth ==
    /\ pc = "check"
    /\ pc' = IF df1 = <<>> /\ df2 = <<>> THEN "stopped" ELSE "metrics"
    /\ UNCHANGED <<analytics_vars, run_values, widget_vars, cache, now, history,
                   language, lang_reruns>>

\* if df1.empty or df2.empty: st.error(...); st.stop()
CheckData ==
    /\ pc = "check"
    /\ pc' = IF df1 = <<>> \/ df2 = <<>> THEN "stopped" ELSE "metrics"
    /\ UNCHANGED <<analytics_vars, run_values, widget_vars, cache, now, history,
                   language, lang_reruns>>

\* "KEY METRICS": return, volatility, current price and Sharpe ratio of each asset
KeyMetrics ==
    /\ pc = "metrics"
    /\ LET c1 == Floats(Col(df1, "Close"))
           c2 == Floats(Col(df2, "Close"))
       IN  metrics' =
             [metrics EXCEPT !.key =
                 [return1 |-> calculate_returns(c1),
                  return2 |-> calculate_returns(c2),
                  vol1 |-> calculate_volatility(c1, TRUE),
                  vol2 |-> calculate_volatility(c2, TRUE),
                  current_price1 |-> iloc(c1, -1),
                  current_price2 |-> iloc(c2, -1),
                  sharpe1 |-> calculate_sharpe_ratio(c1, risk_free_rate),
                  sharpe2 |-> calculate_sharpe_ratio(c2, risk_free_rate)]]
    /\ pc' = "chart"
    /\ UNCHANGED <<analytics_vars, widget_vars, df1, df2, merged, merged_corr,
                   overall_corr, fetched, news, shown, csv, cache, now, history,
                   language, lang_reruns>>

\* "NEWS": news1 = get_news(asset1_ticker); news2 = get_news(asset2_ticker)
News ==
    /\ pc = "news"
    /\ \E r1, r2 \in Responses :
          LET c1 == cache_data(cache, "get_news", asset1_ticker, now,
                               get_news_body(asset1_ticker, r1))
              c2 == cache_data(c1.cache, "get_news", asset2_ticker, now,
                               get_news_body(asset2_ticker, r2))
          IN  /\ news' = [news1 |-> c1.value, news2 |-> c2.value]
              /\ cache' = c2.cache
    /\ pc' = "raw"
    /\ UNCHANGED <<analytics_vars, widget_vars, df1, df2, merged, merged_corr,
                   overall_corr, fetched, metrics, shown, csv, now, history,
                   language, lang_reruns>>

\* "RAW DATA": st.dataframe(df1), st.dataframe(df2), st.dataframe(merged)
RawData ==
    /\ pc = "raw"
    /\ shown' = [df1 |-> df1, df2 |-> df2, merged |-> merged]
    /\ pc' = "export"
    /\ UNCHANGED <<analytics_vars, widget_vars, df1, df2, merged, merged_corr,
                   overall_corr, fetched, metrics, news, csv, cache, now, history,
                   language, lang_reruns>>

\* the column labels of a table, in order
Columns(df) ==
    IF df = <<>> THEN <<>>
    ELSE IF "Drawdown" \in DOMAIN df[1] THEN <<"Date", "Close", "Drawdown">>
    ELSE <<"Date", "Close">>

\* df.to_csv(index=False): the header line, then one line of values per row
to_csv(df) ==
    [header |-> Columns(df),
     lines |-> [i \in 1..Len(df) |->
                  [j \in 1..Len(Columns(df)) |-> df[i][Columns(df)[j]]]]]

\* "EXPORT": csv1 = df1.to_csv(index=False); csv2 = df2.to_csv(index=False)
Export ==
    /\ pc = "export"
    /\ csv' = [csv1 |-> to_csv(df1), csv2 |-> to_csv(df2)]
    /\ pc' = "done"
    /\ UNCHANGED <<analytics_vars, widget_vars, df1, df2, merged, merged_corr,
                   overall_corr, fetched, metrics, news, shown, cache, now,
                   history, language, lang_reruns>>

\* the script, section by section
RunScript ==
    \/ SessionInit
    \/ LanguageSelector
    \/ Sidebar
    \/ LoadData
    \/ CheckData
    \/ KeyMetrics
    \/ MainChart
    \/ DrawdownSection
    \/ VolumeSection
    \/ Correlation
    \/ News
    \/ RawData
    \/ Export

\* the page has finished running and waits for the user
AtRest == pc \in {"done", "stopped"}

\* the user picks another language in the selector
SelectLanguage ==
    /\ AtRest
    /\ \E picked \in TRANSLATIONS \ {selectbox_language} : choice' = picked
    /\ lang_reruns' = 0
    /\ FreshRun
    /\ UNCHANGED <<analytics_vars, show_normalized, show_drawdown, show_volume,
                   clicked, asset1_ticker, asset2_ticker, window, language, cache,
                   now, history>>

\* the user changes the display options
SetOptions ==
    /\ AtRest
    /\ \E n, d, v \in BOOLEAN :
          /\ <<n, d, v>> # <<show_normalized, show_drawdown, show_volume>>
          /\ show_normalized' = n
          /\ show_drawdown' = d
          /\ show_volume' = v
    /\ FreshRun
    /\ UNCHANGED <<analytics_vars, choice, clicked, asset1_ticker, asset2_ticker,
                   window, language, cache, now, history, lang_reruns>>

\* the user picks other assets to compare
SelectAssets ==
    /\ AtRest
    /\ \E a1, a2 \in Tickers :
          /\ <<a1, a2>> # <<asset1_ticker, asset2_ticker>>
          /\ asset1_ticker' = a1
          /\ asset2_ticker' = a2
    /\ FreshRun
    /\ UNCHANGED <<analytics_vars, show_normalized, show_drawdown, show_volume,
                   choice, clicked, window, language, cache, now, history,
                   lang_reruns>>

\* the user clicks the refresh button
ClickRefresh ==
    /\ AtRest
    /\ clicked' = TRUE
    /\ FreshRun
    /\ UNCHANGED <<analytics_vars, show_normalized, show_drawdown, show_volume,
                   choice, asset1_ticker, asset2_ticker, window, language, cache,
                   now, history, lang_reruns>>

\* the user makes the page run again without changing a widget
Rerun ==
    /\ AtRest
    /\ FreshRun
    /\ UNCHANGED <<analytics_vars, widget_vars, language, cache, now, history,
                   lang_reruns>>

\* time passes, between two runs: a run takes far less than a tick of the clock
Tick ==
    /\ AtRest
    /\ now + TickSeconds <= MaxTicks * TickSeconds
    /\ now' = now + TickSeconds
    /\ UNCHANGED <<analytics_vars, run_values, widget_vars, pc, language, cache,
                   history, lang_reruns>>

\* runs in which the user changes the language
NextLanguage ==
    \/ RunScript
    \/ SelectLanguage

SpecLanguage == InitRun /\ [][NextLanguage]_vars

\* runs under every combination of the display options and of the assets
NextOptions ==
    \/ RunScript
    \/ SetOptions
    \/ SelectAssets

SpecOptions == InitRun /\ [][NextOptions]_vars

\* runs and reruns over time, with refreshes
NextCache ==
    \/ RunScript
    \/ Rerun
    \/ ClickRefresh
    \/ Tick

SpecCache == InitCache /\ [][NextCache]_vars

(***************************************************************************)
(* Claims about the analytics functions, under SpecAnalytics.              *)
(***************************************************************************)
\* the price series of the spec's concrete scenario
Scenario == Floats(<<100, 110, 99, 105>>)

\* the greatest price among the first i prices
RunningMax(i) ==
    CHOOSE m \in {prices[j] : j \in 1..i} : \A j \in 1..i : prices[j] <= m

\* the return series of the input: r[i] = prices[i+1]/prices[i] - 1
ReturnSeries == [i \in 1..(Len(prices) - 1) |-> Num(prices[i + 1] - prices[i], prices[i])]

\* sum of the squares of a sequence of floats
SumSq(s) == SeqSum([i \in 1..Len(s) |-> FMul(s[i], s[i])])

\* sample variance in the one-pass form (n*sum(x^2) - sum(x)^2) / (n*(n-1))
OnePassVar(s) ==
    IF Len(s) < 2 THEN NaN
    ELSE FDiv(FSub(FMul(Flt(Len(s)), SumSq(s)), FMul(SeqSum(s), SeqSum(s))),
              Flt(Len(s) * (Len(s) - 1)))

\* C1: a price series with fewer than 2 observations (0 or 1) has total return
\* exactly 0.0, and calculate_returns does not raise on it.
C1_ReturnsOfShortSeriesIsZero ==
    (op.f = "calculate_returns" /\ Len(prices) < 2) => result = Flt(0)

C1_Witness ==
    op.f = "calculate_returns" /\ Len(prices) = 0 /\ result = Flt(0)

\* C2: with at least 2 observations the total return is (last/first - 1) * 100,
\* a function of the first and the last price only; [100, 110, 99, 105] gives 5.
C2_ReturnsIsLastOverFirst ==
    /\ (op.f = "calculate_returns" /\ Len(prices) >= 2) =>
          /\ result.k = "num"
          /\ result.n * prices[1] =
                (prices[Len(prices)] - prices[1]) * 100 * result.d
    /\ calculate_returns(Scenario) = Flt(5)

C2_Witness ==
    /\ op.f = "calculate_returns"
    /\ Len(prices) >= 3
    /\ prices[2] # prices[1]
    /\ prices[Len(prices)] # prices[1]

\* C3: the drawdown series of a non-empty price series has the length of the
\* input, element i is (price[i] - M_i) / M_i * 100 for the running maximum M_i of
\* price[1..i], the running maximum starts at price[1] and never decreases, and
\* the first element is 0.
C3_DrawdownAgainstRunningMax ==
    (op.f = "calculate_drawdown" /\ Len(prices) >= 1) =>
        /\ Len(result) = Len(prices)
        /\ \A i \in 1..Len(prices) :
              /\ result[i].k = "num"
              /\ result[i].n * RunningMax(i) =
                    (prices[i] - RunningMax(i)) * 100 * result[i].d
        /\ result[1] = Flt(0)
        /\ cummax(Floats(prices))[1] = Flt(prices[1])
        /\ \A i \in 1..(Len(prices) - 1) :
              FLeq(cummax(Floats(prices))[i], cummax(Floats(prices))[i + 1])

C3_Witness ==
    /\ op.f = "calculate_drawdown"
    /\ Len(prices) >= 3
    /\ prices[1] < prices[2]
    /\ prices[3] < prices[2]
    /\ result[3] # Flt(0)

\* C6: the Sharpe ratio is 0 whenever the annualized volatility of the returns is
\* exactly zero (all returns equal, as for a constant series of at least 3
\* prices): the division, which would give an infinity or NaN, is not performed.
\* Otherwise it is (mean(returns)*252 - 0.04) / (stdev(returns)*sqrt(252)).
C6_SharpeGuardsZeroVolatility ==
    op.f = "calculate_sharpe_ratio" =>
        LET r == ReturnSeries
            volsq == FMul(OnePassVar(r), Flt(252))
            excess == FSub(FDiv(FMul(SeqSum(r), Flt(252)), Flt(Len(r))), Num(1, 25))
        IN  /\ FIsZero(volsq) => result = Flt(0)
            /\ ~FIsZero(volsq) => result = Quot(excess, Root(volsq))
            /\ (Len(prices) >= 3 /\ \A i \in 1..Len(prices) : prices[i] = prices[1])
                  => result = Flt(0)

C6_Witness ==
    /\ op.f = "calculate_sharpe_ratio"
    /\ Len(prices) >= 3
    /\ \A i \in 1..Len(prices) : prices[i] = prices[1]
    /\ result = Flt(0)

\* the other branch of C6: a series with non-zero volatility
C6_WitnessDivides ==
    op.f = "calculate_sharpe_ratio" /\ result.k = "quot"

\* C7 (as claimed): for a price series of exactly 1 observation the Sharpe ratio
\* is 0, the zero-volatility guard having triggered.
C7_SharpeOfOneObservationIsZero ==
    (op.f = "calculate_sharpe_ratio" /\ Len(prices) = 1) => result = Flt(0)

C4_DrawdownNeverPositive ==
    /\ op.f = "calculate_drawdown" =>
          \A i \in 1..Len(result) : result[i].k = "num" /\ result[i].n <= 0
    /\ op.f = "max_dd" => (result.k = "num" /\ result.n <= 0)

C4_Witness ==
    op.f = "max_dd" /\ result.k = "num" /\ result.n < 0

NonDecreasing(p) == \A i \in 1..(Len(p) - 1) : p[i] <= p[i + 1]

\* C5: for a non-decreasing price series every element of the drawdown series is 0
\* and the maximum drawdown is exactly 0.
C5_NoDrawdownWhenNonDecreasing ==
    NonDecreasing(prices) =>
        /\ op.f = "calculate_drawdown" =>
              \A i \in 1..Len(result) : result[i] = Flt(0)
        /\ op.f = "max_dd" => result = Flt(0)

C5_Witness ==
    /\ op.f = "max_dd"
    /\ NonDecreasing(prices)
    /\ Len(prices) >= 3
    /\ prices[1] < prices[Len(prices)]
    /\ result = Flt(0)

(***************************************************************************)
(* Claims about the merged tables, under SpecMerge and SpecRolling.        *)
(***************************************************************************)
Dates(df) == {df[i].Date : i \in 1..Len(df)}

CommonDates == Dates(df1) \cap Dates(df2)

\* the row of df that holds date d
RowAt(df, d) == CHOOSE i \in 1..Len(df) : df[i].Date = d

\* the value the comparison chart plots for row i of df
Plotted(df, i) ==
    IF show_normalized THEN normalize_series(Floats(Col(df, "Close")))[i]
    ELSE Flt(df[i].Close)

\* the rows of table m are exactly the common dates, ascending, each once
RowsAreCommonDates(m) ==
    /\ Len(m) = Cardinality(CommonDates)
    /\ \A i \in 1..Len(m) : m[i].Date \in CommonDates
    /\ \A i \in 1..(Len(m) - 1) : m[i].Date < m[i + 1].Date

\* r is the return from close a to close b
IsReturn(r, a, b) == r.k = "num" /\ r.n * a = (b - a) * r.d

\* C9: both merged tables hold exactly the dates common to the two assets (an
\* inner join on Date): no row for a date of only one asset, no filled-in value,
\* and every row carries the two assets' values, and returns, of its own date.
C9_MergedIsInnerJoinOnDate ==
    /\ pc \in {"drawdown", "volume", "correlation", "news"} =>
          /\ RowsAreCommonDates(merged)
          /\ \A i \in 1..Len(merged) :
                /\ merged[i].x = Plotted(df1, RowAt(df1, merged[i].Date))
                /\ merged[i].y = Plotted(df2, RowAt(df2, merged[i].Date))
    /\ pc = "news" =>
          /\ RowsAreCommonDates(merged_corr)
          /\ \A i \in 1..Len(merged_corr) :
                LET row == merged_corr[i]
                    c1 == df1[RowAt(df1, row.Date)].Close
                    c2 == df2[RowAt(df2, row.Date)].Close
                IN  /\ row.Asset1 = Flt(c1)
                    /\ row.Asset2 = Flt(c2)
                    /\ i = 1 => (row.Return1 = NaN /\ row.Return2 = NaN)
                    /\ i > 1 =>
                          LET before == merged_corr[i - 1].Date
                          IN  /\ IsReturn(row.Return1,
                                          df1[RowAt(df1, before)].Close, c1)
                              /\ IsReturn(row.Return2,
                                          df2[RowAt(df2, before)].Close, c2)

\* a date that only the first asset has lies between two common dates
C9_Witness ==
    /\ pc = "news"
    /\ show_normalized
    /\ Len(merged_corr) = 2
    /\ Len(merged) = 2
    /\ \E d \in Dates(df1) \ Dates(df2) :
          merged_corr[1].Date < d /\ d < merged_corr[2].Date
    /\ merged_corr[2].Return1 # merged_corr[2].Return2

\* the return of table df at row r (r >= 2)
ReturnAt(df, r) == Num(df[r].Close - df[r - 1].Close, df[r - 1].Close)

\* the sum of f[r] over the rows lo..hi
RECURSIVE SumRows(_, _, _)
SumRows(f, lo, hi) ==
    IF lo > hi THEN Flt(0) ELSE FAdd(f[lo], SumRows(f, lo + 1, hi))

\* Pearson's r of the return pairs of rows lo..hi, from its definition, as the
\* pair (sign of r, r squared); undefined when either series is constant
PearsonOfRows(lo, hi) ==
    LET n == hi - lo + 1
        x == [r \in lo..hi |-> ReturnAt(df1, r)]
        y == [r \in lo..hi |-> ReturnAt(df2, r)]
        mx == FDiv(SumRows(x, lo, hi), Flt(n))
        my == FDiv(SumRows(y, lo, hi), Flt(n))
        sxy == SumRows([r \in lo..hi |-> FMul(FSub(x[r], mx), FSub(y[r], my))], lo, hi)
        sxx == SumRows([r \in lo..hi |-> FMul(FSub(x[r], mx), FSub(x[r], mx))], lo, hi)
        syy == SumRows([r \in lo..hi |-> FMul(FSub(y[r], my), FSub(y[r], my))], lo, hi)
    IN  IF sxx.n = 0 \/ syy.n = 0 THEN [defined |-> FALSE]
        ELSE [defined |-> TRUE, s |-> Sign(sxy.n),
              sq |-> FDiv(FMul(sxy, sxy), FMul(sxx, syy))]

\* a computed correlation as the pair (sign, square); NaN is undefined
AsSignAndSquare(c) ==
    IF c.k = "quot"
    THEN [defined |-> TRUE, s |-> Sign(c.num.n),
          sq |-> FDiv(FMul(c.num, c.num), Radicand(c.den))]
    ELSE IF c.k = "num"
    THEN [defined |-> TRUE, s |-> Sign(c.n), sq |-> FMul(c, c)]
    ELSE IF c.k = "nan" THEN [defined |-> FALSE]
    ELSE [defined |-> TRUE, k |-> c.k]

\* C10: counting the return series from the first row that has a return (row 2 of
\* the merged table), the rolling correlation with window w has a value at
\* position i only for i >= w-1, that is from row w+1 on, where it is the Pearson
\* correlation of the w return pairs ending there (undefined when one of the two
\* is constant over the window); every earlier row holds NaN, never 0.
C10_RollingCorrelationWaitsForFullWindow ==
    pc = "news" =>
        \A r \in 1..Len(merged_corr) :
            IF r <= window
            THEN merged_corr[r].Rolling_Corr = NaN
            ELSE AsSignAndSquare(merged_corr[r].Rolling_Corr) =
                    PearsonOfRows(r - window + 1, r)

\* a window of 3 is filled at row 4 with a correlation strictly between 0 and 1,
\* after three rows without a value
C10_Witness ==
    /\ pc = "news"
    /\ window = 3
    /\ Len(merged_corr) = 4
    /\ \A r \in 1..3 : merged_corr[r].Rolling_Corr = NaN
    /\ merged_corr[4].Rolling_Corr.k = "quot"
    /\ merged_corr[4].Rolling_Corr.num.n > 0
    /\ AsSignAndSquare(merged_corr[4].Rolling_Corr).sq # Flt(1)

\* the two assets have the same return at every row that has one, and there are
\* at least two such rows
IdenticalReturns ==
    /\ Len(merged_corr) >= 3
    /\ \A r \in 2..Len(merged_corr) :
          merged_corr[r].Return1 = merged_corr[r].Return2

\* the first asset's returns of rows lo..hi are all the same
ConstantOver(lo, hi) ==
    \A r \in lo..hi : merged_corr[r].Return1 = merged_corr[lo].Return1

\* the computed correlation c is 1: positive, and its square is 1
IsOne(c) ==
    \/ c = Flt(1)
    \/ /\ c.k = "quot"
       /\ c.num.n > 0
       /\ FMul(c.num, c.num) = Radicand(c.den)

\* C11 (as claimed): when the two assets have identical returns on every date and
\* the return series is not constant, the overall correlation is 1 and the rolling
\* correlation is 1 at every row whose window is full.
C11_IdenticalReturnsCorrelateToOne ==
    (pc = "news" /\ IdenticalReturns /\ ~ConstantOver(2, Len(merged_corr))) =>
        /\ IsOne(overall_corr)
        /\ \A r \in (window + 1)..Len(merged_corr) :
              IsOne(merged_corr[r].Rolling_Corr)

\* C11 (amended): when the two assets have identical returns on every date and the
\* return series is not constant, the overall correlation is 1, and at every row
\* whose window is full the rolling correlation is 1 if the returns vary within
\* the window and NaN if they are constant within it.
C11_IdenticalReturnsCorrelateToOneOrNaN ==
    (pc = "news" /\ IdenticalReturns /\ ~ConstantOver(2, Len(merged_corr))) =>
        /\ IsOne(overall_corr)
        /\ \A r \in (window + 1)..Len(merged_corr) :
              IF ConstantOver(r - window + 1, r)
              THEN merged_corr[r].Rolling_Corr = NaN
              ELSE IsOne(merged_corr[r].Rolling_Corr)

\* an asset compared with itself: flat over the first full window, moving in the
\* second
C11_Witness ==
    /\ pc = "news"
    /\ df1 = df2
    /\ IdenticalReturns
    /\ window = 2
    /\ Len(merged_corr) = 4
    /\ IsOne(overall_corr)
    /\ merged_corr[3].Rolling_Corr = NaN
    /\ IsOne(merged_corr[4].Rolling_Corr)

(***************************************************************************)
(* Further claims about the analytics functions, under SpecAnalytics.      *)
(***************************************************************************)
\* the positive factors a/b a price series is multiplied by
Scales == {Num(a, b) : a, b \in 1..MaxScale}

\* the input price series with every price multiplied by k
Scaled(k) == [i \in 1..Len(prices) |-> FMul(k, Flt(prices[i]))]

\* C12: multiplying every price by the same positive constant k leaves the return
\* series unchanged, and with it the volatility, annualized or not.
C12_VolatilityIsScaleInvariant ==
    op.f = "calculate_volatility" =>
        \A k \in Scales :
            /\ pct_change(Scaled(k)) = pct_change(Floats(prices))
            /\ calculate_volatility(Scaled(k), op.annualize) = result

\* a series with a non-zero volatility, which doubling the prices keeps
C12_Witness ==
    /\ op.f = "calculate_volatility"
    /\ Len(prices) >= 3
    /\ result.k = "root"
    /\ result.n > 0
    /\ Scaled(Num(2, 1)) # Floats(prices)
    /\ calculate_volatility(Scaled(Num(2, 1)), op.annualize) = result

\* a call repeats the call the caller kept: same function, same arguments, same
\* series
RepeatsSeen == seen # NoCall /\ seen.op = op /\ seen.prices = prices

C13_WitnessInterleaved ==
    /\ seen # NoCall
    /\ seen.f = "calculate_drawdown"
    /\ op.f = "calculate_sharpe_ratio"
    /\ Len(prices) >= 3
    /\ prices[2] # prices[1]

OwnReturn(df, d) == pct_change(Floats(Col(df, "Close")))[RowAt(df, d)]

\* the join dropped a date of df between rows i-1 and i of merged_corr
DroppedBetween(df, i) ==
    \E d \in Dates(df) : merged_corr[i - 1].Date < d /\ d < merged_corr[i].Date

\* the close of df at its last date before date d
CloseBefore(df, d) == df[RowAt(df, d) - 1].Close

\* the returns of merged_corr run between consecutive common dates, and row 1 has
\* none; without a dropped date they are the asset's own returns
ReturnsAfterJoin ==
    \A i \in 1..Len(merged_corr) :
        LET row == merged_corr[i]
        IN  /\ i = 1 => (row.Return1 = NaN /\ row.Return2 = NaN)
            /\ i > 1 =>
                  /\ row.Return1 =
                        FSub(FDiv(row.Asset1, merged_corr[i - 1].Asset1), Flt(1))
                  /\ row.Return2 =
                        FSub(FDiv(row.Asset2, merged_corr[i - 1].Asset2), Flt(1))
                  /\ ~DroppedBetween(df1, i) => row.Return1 = OwnReturn(df1, row.Date)
                  /\ ~DroppedBetween(df2, i) => row.Return2 = OwnReturn(df2, row.Date)

\* C16 (as claimed): the returns of the correlation table are computed after the
\* join, between consecutive common dates, row 1 having none; such a return
\* equals the asset's own return of that date only when the join dropped no date
\* of the asset in between.
C16_ReturnsEqualOwnOnlyWithoutDrop ==
    pc = "news" =>
        /\ ReturnsAfterJoin
        /\ \A i \in 2..Len(merged_corr) :
              LET row == merged_corr[i]
              IN  /\ row.Return1 = OwnReturn(df1, row.Date) => ~DroppedBetween(df1, i)
                  /\ row.Return2 = OwnReturn(df2, row.Date) => ~DroppedBetween(df2, i)

\* C16 (amended): the returns of the correlation table are computed after the
\* join, between consecutive common dates, row 1 having none; such a return
\* equals the asset's own return of that date when the join dropped no date of
\* the asset in between, and otherwise exactly when the asset's close at its last
\* dropped date equals its close at the previous common date.
C16_ReturnsEqualOwnWhenPreviousCloseEqual ==
    pc = "news" =>
        /\ ReturnsAfterJoin
        /\ \A i \in 2..Len(merged_corr) :
              LET row == merged_corr[i]
              IN  /\ row.Return1 = OwnReturn(df1, row.Date) <=>
                        Flt(CloseBefore(df1, row.Date)) = merged_corr[i - 1].Asset1
                  /\ row.Return2 = OwnReturn(df2, row.Date) <=>
                        Flt(CloseBefore(df2, row.Date)) = merged_corr[i - 1].Asset2

\* a date of the first asset is dropped, and its close there equals the close at
\* the previous common date: the return over two days is the asset's own return
C16_Witness ==
    /\ pc = "news"
    /\ Len(merged_corr) = 2
    /\ DroppedBetween(df1, 2)
    /\ merged_corr[2].Return1 # Flt(0)
    /\ merged_corr[2].Return1 = OwnReturn(df1, merged_corr[2].Date)

\* a date of the first asset is dropped and the return differs from its own
C16_WitnessDiffers ==
    /\ pc = "news"
    /\ Len(merged_corr) = 2
    /\ DroppedBetween(df1, 2)
    /\ ~DroppedBetween(df2, 2)
    /\ merged_corr[2].Return1 # OwnReturn(df1, merged_corr[2].Date)
    /\ merged_corr[2].Return2 = OwnReturn(df2, merged_corr[2].Date)

(***************************************************************************)
(* Claims about the run of the script, under SpecOptions, SpecCache and    *)
(* SpecLanguage.                                                           *)
(***************************************************************************)
\* the sections of the script below the check of the loaded tables
PastCheck ==
    pc \in {"metrics", "chart", "drawdown", "volume", "correlation", "news", "raw",
            "export", "done"}

\* the table the data-fetch layer produced for an asset and holds in its cache
Fetched(ticker) == cache.load_asset_data[Key(ticker)].value

\* C14 (as claimed): a table produced by the data-fetch layer is immutable: from
\* its loading to the end of the run, under every combination of the display
\* options, df1 and df2 are the tables that were fetched, and so are the tables
\* shown as raw data and exported as CSV.
C14_LoadedTablesNeverChange ==
    /\ (pc = "check" \/ pc = "stopped" \/ PastCheck) =>
          /\ df1 = Fetched(asset1_ticker)
          /\ df2 = Fetched(asset2_ticker)
    /\ shown # NotComputed =>
          /\ shown.df1 = Fetched(asset1_ticker)
          /\ shown.df2 = Fetched(asset2_ticker)
    /\ csv # NotComputed =>
          /\ csv.csv1 = to_csv(Fetched(asset1_ticker))
          /\ csv.csv2 = to_csv(Fetched(asset2_ticker))

\* a table is empty
Empty(df) == df = <<>>

\* something of the sections below the check has been computed in this run
SomethingComputed ==
    \/ metrics # NoMetrics
    \/ merged # <<>>
    \/ merged_corr # <<>>
    \/ news # NotComputed
    \/ shown # NotComputed
    \/ csv # NotComputed

\* C17: if either loaded table is empty the run stops at the loading error,
\* before any metric, chart, correlation, news, raw-data or export step; those
\* steps run only when both tables are non-empty.
C17_EmptyTableStopsTheRun ==
    /\ [](PastCheck => (~Empty(df1) /\ ~Empty(df2)))
    /\ [](pc = "stopped" => ((Empty(df1) \/ Empty(df2)) /\ ~SomethingComputed))
    /\ [](SomethingComputed => (~Empty(df1) /\ ~Empty(df2)))
    /\ [][(pc = "check" /\ (Empty(df1) \/ Empty(df2))) => pc' = "stopped"]_vars
    /\ [][(pc = "check" /\ ~Empty(df1) /\ ~Empty(df2)) => pc' = "metrics"]_vars

\* the first table loaded, the second empty: the run has stopped
C17_Witness ==
    /\ pc = "stopped"
    /\ ~Empty(df1)
    /\ Empty(df2)
    /\ show_volume

\* a run that went to the end on two non-empty tables
C17_WitnessRuns ==
    /\ pc = "done"
    /\ csv # NotComputed
    /\ ~Empty(df1)
    /\ ~Empty(df2)

\* the keys the loading section asks for
Asked == {Key(asset1_ticker), Key(asset2_ticker)}

\* key was fetched before, no refresh came since, and less than ttl has passed
StillCached(key) ==
    /\ history[key].last >= 0
    /\ ~history[key].cleared
    /\ now - history[key].last < ttl

\* the table the last network fetch of a key produced
LastFetched(key) == load_asset_data_body(key[1], history[key].response)

\* the tables the loading section is about to return for key
Loaded(key) ==
    {df \in {df1', df2'} :
        \/ key = Key(asset1_ticker) /\ df = df1'
        \/ key = Key(asset2_ticker) /\ df = df2'}

\* C15: for a fixed (ticker, years), over reruns within one ttl of 3600 seconds
\* and without a refresh, load_asset_data fetches over the network at most once:
\* a later call does not fetch and returns the table that was cached.
C15_AtMostOneFetchPerInterval ==
    [][pc = "load" =>
          \A key \in Asked :
              StillCached(key) =>
                  /\ key \notin fetched'
                  /\ Loaded(key) = {LastFetched(key)}]_vars

\* a rerun two ticks after the fetch, served from the cache
C15_Witness ==
    /\ pc = "check"
    /\ fetched = {}
    /\ asset1_ticker # asset2_ticker
    /\ now - history[Key(asset1_ticker)].last = 2 * TickSeconds
    /\ ~history[Key(asset1_ticker)].cleared
    /\ df1 = Quotes(asset1_ticker)

\* C18: load_asset_data never raises: a fetch that raises or returns no rows
\* gives an empty table, which is cached like any other, so that every later run
\* with the same key within the ttl stops at the loading error without fetching
\* again, until the entry expires or a refresh clears it, when it fetches anew.
C18_EmptyResultIsCached ==
    /\ [](pc = "check" =>
            /\ df1 \in {<<>>, Quotes(asset1_ticker)}
            /\ df2 \in {<<>>, Quotes(asset2_ticker)}
            /\ \A key \in fetched :
                  history[key].response # "rows" =>
                      cache.load_asset_data[key] =
                          [value |-> <<>>, at |-> history[key].last])
    /\ [][pc = "load" =>
            \A key \in Asked :
                IF StillCached(key)
                THEN history[key].response # "rows" =>
                        /\ key \notin fetched'
                        /\ Loaded(key) = {<<>>}
                ELSE key \in fetched']_vars
    /\ [][(pc = "check" /\ (Empty(df1) \/ Empty(df2)) /\ fetched = {})
            => pc' = "stopped"]_vars

\* a fetch raised; a later run, one tick on, stopped again without fetching
C18_Witness ==
    /\ pc = "stopped"
    /\ fetched = {}
    /\ history[Key(asset1_ticker)].response = "raises"
    /\ now - history[Key(asset1_ticker)].last = TickSeconds
    /\ Empty(df1)
    /\ ~Empty(df2)

\* the failed fetch is tried again once the entry has expired
C18_WitnessExpired ==
    /\ pc = "check"
    /\ Key(asset1_ticker) \in fetched
    /\ now > 0
    /\ now = history[Key(asset1_ticker)].last
    /\ ~Empty(df1)

\* C20: a click on the refresh button clears every cached entry (asset data,
\* asset info and news, for all keys) and starts the script again, so that the
\* first load_asset_data call for each (ticker, years) after it fetches over the
\* network even when the previous entry had not expired.
C20_RefreshClearsEveryEntry ==
    /\ [][(pc = "sidebar" /\ clicked) =>
            /\ cache' = EmptyCache
            /\ pc' = "session"
            /\ ~clicked']_vars
    /\ [][pc = "load" =>
            \A key \in Asked : history[key].cleared => key \in fetched']_vars
    /\ [](\A key \in Keys :
            (history[key].last >= 0 /\ history[key].cleared) =>
                cache.load_asset_data[key] = Absent)

\* the run after a refresh fetched both keys although the previous entries, one
\* tick old, had not expired
C20_Witness ==
    /\ pc = "check"
    /\ now = TickSeconds
    /\ fetched = Keys
    /\ cache.get_news["BTC-USD"] = Absent
    /\ \A key \in Keys : history[key].last = now

\* the session of a page just opened, before the script has initialised it
NewSession == language = "unset" /\ choice = "unset" /\ pc = "session"

\* C19: the stored language is always a key of TRANSLATIONS, English at first; a
\* selection that differs from it is stored and triggers exactly one rerun, and
\* the run that follows has stored = selected and passes the language selector
\* without another rerun.
C19_LanguageSelectionRerunsOnce ==
    /\ [](language \in TRANSLATIONS \/ NewSession)
    /\ [](choice = "unset" /\ pc # "session" => language = "English")
    /\ [](lang_reruns <= 1)
    /\ [](pc \notin {"session", "language"} => language = selectbox_language)
    /\ [][(pc = "language" /\ selectbox_language # language) =>
            /\ language' = selectbox_language
            /\ pc' = "session"
            /\ lang_reruns' = 1]_vars
    /\ [][(pc = "language" /\ lang_reruns = 1) =>
            (pc' = "sidebar" /\ language' = language)]_vars

\* the run after the one rerun of a selection went to the end in that language
C19_Witness ==
    /\ pc = "done"
    /\ language = "Arabiya"
    /\ choice = "Arabiya"
    /\ lang_reruns = 1

====
